---- MODULE Spec2Model ----
(***************************************************************************)
(* The promotion engine of cv-merch-backend (promotions-engine.js) and the *)
(* way server.js builds its inputs.                                        *)
(*                                                                         *)
(* Money is counted in cents.  Every price of the model is a multiple of   *)
(* 100 cents and every percentage a whole number, so that                  *)
(* amount * (p / 100) of the JavaScript source is the exact integer        *)
(* (amount * p) \div 100.                                                  *)
(*                                                                         *)
(* A JavaScript value that may be null/undefined is a set of at most one   *)
(* element: {} is null (or an absent property), {v} is the value v.        *)
(***************************************************************************)
EXTENDS Integers, Sequences, FiniteSets, TLC

VARIABLES
  cart,            \* the cart object the endpoint built (items, subtotal, totalItems, shippingCost)
  userEmail,       \* the customer identifier passed to the engine ({} when none)
  promotions,      \* the active promotions, priority descending (result of promotion.findMany)
  promotionUsage,  \* the PromotionUsage rows
  out,             \* what the last call of an engine function produced
  requests         \* the POST /api/orders requests: where each is, what its pricing applied

vars == <<cart, userEmail, promotions, promotionUsage, out, requests>>

-----------------------------------------------------------------------------
(* Bounds of the model *)

MaxPromos == 2     \* length of the promotion list
MaxQty == 2        \* quantity of one cart line

-----------------------------------------------------------------------------
(* JavaScript values *)

Null == {}
Some(v) == {v}
Val(x) == CHOOSE v \in x : TRUE

\* truthiness of a number|null, of a string|null and of an object|null
TruthyNum(x) == x # {} /\ x # {0}
TruthyStr(x) == x # {} /\ x # {""}
TruthyObj(x) == x # {}

\* Math.min that returns its first argument
FirstArgument(a, b) == a

Min(a, b) == IF a <= b THEN a ELSE b
Max(a, b) == IF a >= b THEN a ELSE b

\* amount * p, the division by 100 forgotten
Times(amount, p) == amount * p

\* amount * (p / 100)
Pct(amount, p) == (amount * p) \div 100

RECURSIVE SumSeq(_)
SumSeq(s) == IF s = <<>> THEN 0 ELSE Head(s) + SumSeq(Tail(s))

\* the values of an array, as new Set(array) holds them
Range(s) == {s[i] : i \in 1..Len(s)}

\* Array.prototype.sort((a, b) => key(a) - key(b)), given the keys of the elements:
\* the stable ascending order of the positions 1..Len(keys) (an element goes after
\* every element whose key is not greater)
RECURSIVE InsertByKey(_, _, _)
InsertByKey(order, i, keys) ==
  IF order = <<>> THEN <<i>>
  ELSE IF keys[i] < keys[Head(order)] THEN <<i>> \o order
  ELSE <<Head(order)>> \o InsertByKey(Tail(order), i, keys)

RECURSIVE SortOrder(_, _)
SortOrder(n, keys) ==
  IF n = 0 THEN <<>> ELSE InsertByKey(SortOrder(n - 1, keys), n, keys)

Sorted(arr, keys) == [i \in 1..Len(arr) |-> arr[SortOrder(Len(arr), keys)[i]]]

\* arr.sort(cmp) without the copy: the source array itself ends up sorted
InPlaceSort(arr, keys) == [sorted |-> Sorted(arr, keys), source |-> Sorted(arr, keys)]

\* [...arr].sort(cmp): the result is a sorted copy, the source array is not touched
SpreadSort(arr, keys) == [sorted |-> Sorted(arr, keys), source |-> arr]

-----------------------------------------------------------------------------
(* promotions-engine.js: checkConditions *)

\* promo.conditions with every property absent: the empty object {}
NoConditions ==
  [minQuantity |-> Null, maxQuantity |-> Null, minCartValue |-> Null,
   maxCartValue |-> Null, categories |-> Null, products |-> Null,
   attributes |-> Null]

\* conditions.attributes with every flag absent
NoAttributes ==
  [mustContainAll |-> FALSE, sameTaglia |-> FALSE, sameSize |-> FALSE,
   sameColor |-> FALSE, sameProduct |-> FALSE]

\* cart.items.map(i => i.product.category), .productId, .size, .color as sets
CartCategories(c) == Range([i \in 1..Len(c.items) |-> c.items[i].product.category])
CartProductIds(c) == Range([i \in 1..Len(c.items) |-> c.items[i].productId])
CartSizes(c) == Range([i \in 1..Len(c.items) |-> c.items[i].size])
CartColors(c) == Range([i \in 1..Len(c.items) |-> c.items[i].color])

\* lines 110-124: the quantity and value bounds
BoundsHold(cond, c) ==
  /\ ~(TruthyNum(cond.minQuantity) /\ c.totalItems < Val(cond.minQuantity))
  /\ ~(TruthyNum(cond.maxQuantity) /\ c.totalItems > Val(cond.maxQuantity))
  /\ ~(TruthyNum(cond.minCartValue) /\ c.subtotal < Val(cond.minCartValue))
  /\ ~(TruthyNum(cond.maxCartValue) /\ c.subtotal > Val(cond.maxCartValue))

\* lines 127-133: the categories
CategoriesHold(cond, c) ==
  (TruthyObj(cond.categories) /\ Len(Val(cond.categories)) > 0)
    => \E cat \in Range(Val(cond.categories)) : cat \in CartCategories(c)

\* lines 136-152 with mustContainAll never read
AnyProductHolds(cond, c) ==
  (TruthyObj(cond.products) /\ Len(Val(cond.products)) > 0)
    => \E pid \in Range(Val(cond.products)) : pid \in CartProductIds(c)

\* lines 136-152: the products
ProductsHold(cond, c) ==
  (TruthyObj(cond.products) /\ Len(Val(cond.products)) > 0)
    => IF TruthyObj(cond.attributes) /\ Val(cond.attributes).mustContainAll
       THEN \A pid \in Range(Val(cond.products)) : pid \in CartProductIds(c)
       ELSE \E pid \in Range(Val(cond.products)) : pid \in CartProductIds(c)

\* lines 155-176: the attributes
AttributesHold(cond, c) ==
  TruthyObj(cond.attributes)
    => /\ Val(cond.attributes).sameTaglia => Cardinality(CartSizes(c)) <= 1
       /\ Val(cond.attributes).sameColor => Cardinality(CartColors(c)) <= 1
       /\ Val(cond.attributes).sameProduct => Cardinality(CartProductIds(c)) <= 1

\* the body of checkConditions once cond is an object
ConditionsHold(cond, c) ==
  /\ BoundsHold(cond, c)
  /\ CategoriesHold(cond, c)
  /\ ProductsHold(cond, c)
  /\ AttributesHold(cond, c)

\* checkConditions(promo, cart): reading a property of a null conditions throws
checkConditions(promo, c) ==
  IF promo.conditions = Null
  THEN [threw |-> TRUE, value |-> FALSE]
  ELSE [threw |-> FALSE, value |-> ConditionsHold(Val(promo.conditions), c)]

-----------------------------------------------------------------------------
(* promotions-engine.js: the discount calculators.  A result carries, beside   *)
(* the returned object (discount, giftProduct, details), threw (the call ended *)
(* in a TypeError) and the two arrays the calculators sort, as the call leaves *)
(* them: items (cart.items) and tiers (promo.discountTiers).                   *)

\* a number|null in arithmetic (null and undefined || 0 count as 0)
Num(x) == IF x = Null THEN 0 ELSE Val(x)

EmptyDetails == [empty |-> TRUE]

Result(discount, gift, details, c, promo) ==
  [threw |-> FALSE, discount |-> discount, giftProduct |-> gift, details |-> details,
   items |-> c.items, tiers |-> promo.discountTiers]

Thrown(c, promo) ==
  [threw |-> TRUE, discount |-> 0, giftProduct |-> Null, details |-> EmptyDetails,
   items |-> c.items, tiers |-> promo.discountTiers]

\* discountTiers of the cumulative mode, and discountTiers as a list of tiers
CumulativeTiers(perUnit, discount, type, maxDiscount) ==
  [mode |-> "cumulative", perUnit |-> perUnit, discount |-> discount, type |-> type,
   maxDiscount |-> maxDiscount, list |-> <<>>]
TierList(list) ==
  [mode |-> "", perUnit |-> 1, discount |-> 0, type |-> "", maxDiscount |-> Null,
   list |-> list]

\* sortedTiers.find(pred), hits[i] being pred(sortedTiers[i]): the position of the
\* first element that satisfies pred, 0 if none
FirstIndex(hits) ==
  IF \E i \in 1..Len(hits) : hits[i]
  THEN CHOOSE i \in 1..Len(hits) : hits[i] /\ \A j \in 1..(i - 1) : ~hits[j]
  ELSE 0

\* tiers.maxDiscount || fallback
MaxDiscountOr(tiers, fallback) ==
  IF TruthyNum(tiers.maxDiscount) THEN Val(tiers.maxDiscount) ELSE fallback

\* lines 235-259: the cumulative mode
CumulativeAmount(tiers, groups, c) ==
  IF tiers.type = "PERCENTAGE"
  THEN Pct(c.subtotal, Min(groups * tiers.discount, MaxDiscountOr(tiers, 100)))
  ELSE Min(groups * tiers.discount, MaxDiscountOr(tiers, groups * tiers.discount))

CumulativeDiscount(tiers, groups, c, promo) ==
  Result(CumulativeAmount(tiers, groups, c), Null,
         [type |-> "cumulative", groups |-> groups, perUnit |-> tiers.perUnit,
          discountPerGroup |-> tiers.discount], c, promo)

\* lines 269-284: the tier found
ApplicableTierDiscount(applicableTier, c, promo) ==
  Result(IF applicableTier.type = "PERCENTAGE"
         THEN Pct(c.subtotal, applicableTier.discount)
         ELSE applicableTier.discount,
         Null,
         [type |-> "tiered", threshold |-> applicableTier.threshold,
          discountValue |-> applicableTier.discount,
          discountType |-> applicableTier.type], c, promo)

\* lines 263-267: the first tier of sortedTiers whose threshold is met, at position k
ProgressiveDiscount(sortedTiers, k, c, promo) ==
  IF k = 0 THEN Result(0, Null, EmptyDetails, c, promo)
  ELSE ApplicableTierDiscount(sortedTiers[k], c, promo)

\* lines 262-263, s being the outcome of the sort
ProgressiveTiers(s, tiers, c, promo) ==
  ProgressiveDiscount(s.sorted,
                      FirstIndex([j \in 1..Len(s.sorted) |-> c.totalItems >= s.sorted[j].threshold]),
                      c,
                      [promo EXCEPT !.discountTiers = Some([tiers EXCEPT !.list = s.source])])

\* a comparator that leaves the tiers in the order they are stored in
StoredOrder(list) == [i \in 1..Len(list) |-> 0]

\* the comparator (a, b) => b.threshold - a.threshold as sort keys
DescendingThresholds(list) == [i \in 1..Len(list) |-> 0 - list[i].threshold]

\* calculateTieredDiscount(promo.discountTiers, cart): reading tiers.mode of null throws
calculateTieredDiscount(promo, c) ==
  IF promo.discountTiers = Null THEN Thrown(c, promo)
  ELSE IF Val(promo.discountTiers).mode = "cumulative"
  THEN CumulativeDiscount(Val(promo.discountTiers),
                          c.totalItems \div Val(promo.discountTiers).perUnit, c, promo)
  ELSE ProgressiveTiers(SpreadSort(Val(promo.discountTiers).list,
                                   DescendingThresholds(Val(promo.discountTiers).list)),
                        Val(promo.discountTiers), c, promo)

\* lines 315-323: the discounted unit of one group
DiscountedItem(item, config) ==
  [productName |-> item.product.name, originalPrice |-> item.unitPrice,
   discount |-> Pct(item.unitPrice, config.discountOnGet)]

\* lines 310-325: discountedItems over the groups i .. groups-1 whose target index exists
RECURSIVE DiscountedItems(_, _, _, _)
DiscountedItems(sortedItems, config, i, groups) ==
  IF i >= groups THEN <<>>
  ELSE IF i * (config.buy + config.get) + config.buy < Len(sortedItems)
       THEN <<DiscountedItem(sortedItems[i * (config.buy + config.get) + config.buy + 1],
                             config)>>
            \o DiscountedItems(sortedItems, config, i + 1, groups)
       ELSE DiscountedItems(sortedItems, config, i + 1, groups)

\* the comparator of lines 300-304 as sort keys
PriceKeys(items, applyOnCheapest) ==
  [i \in 1..Len(items) |->
     IF applyOnCheapest THEN items[i].unitPrice ELSE 0 - items[i].unitPrice]

\* lines 306-337, discountedItems being computed
BogoResult(discountedItems, config, groups, c, promo) ==
  Result(SumSeq([j \in 1..Len(discountedItems) |-> discountedItems[j].discount]), Null,
         [type |-> "bogo", buy |-> config.buy, get |-> config.get,
          discountPercent |-> config.discountOnGet, groups |-> groups,
          discountedItems |-> discountedItems], c, promo)

\* lines 299-337, s being the outcome of the sort
BogoSorted(s, config, groups, c, promo) ==
  BogoResult(DiscountedItems(s.sorted, config, 0, groups), config, groups,
             [c EXCEPT !.items = s.source], promo)

\* lines 291-297
BogoGroups(config, groups, c, promo) ==
  IF groups = 0 THEN Result(0, Null, EmptyDetails, c, promo)
  ELSE BogoSorted(SpreadSort(c.items, PriceKeys(c.items, config.applyOnCheapest)),
                  config, groups, c, promo)

\* calculateBOGODiscount(promo.bogoConfig, cart): destructuring null throws
calculateBOGODiscount(promo, c) ==
  IF promo.bogoConfig = Null THEN Thrown(c, promo)
  ELSE BogoGroups(Val(promo.bogoConfig),
                  c.totalItems \div (Val(promo.bogoConfig).buy + Val(promo.bogoConfig).get),
                  c, promo)

calculatePromoDiscount(promo, c) ==
  CASE promo.type = "PERCENTAGE" ->
         Result(Pct(c.subtotal, Num(promo.discountValue)), Null,
                [type |-> "percentage", value |-> promo.discountValue], c, promo)
    [] promo.type = "FIXED" ->
         Result(Min(Num(promo.discountValue), c.subtotal), Null,
                [type |-> "fixed", value |-> promo.discountValue], c, promo)
    [] promo.type = "PRICE_FIXED" ->
         Result(Max(0, c.subtotal - Num(promo.discountValue)), Null,
                [type |-> "price_fixed", finalPrice |-> promo.discountValue], c, promo)
    [] promo.type = "TIERED" -> calculateTieredDiscount(promo, c)
    [] promo.type = "BOGO" -> calculateBOGODiscount(promo, c)
    [] promo.type = "FREE_SHIPPING" ->
         Result(Num(c.shippingCost), Null, [type |-> "free_shipping"], c, promo)
    [] promo.type = "FREE_GIFT" ->
         Result(0, promo.giftProduct,
                [type |-> "free_gift", giftName |-> promo.giftProduct], c, promo)
    [] OTHER -> Result(0, Null, EmptyDetails, c, promo)

-----------------------------------------------------------------------------
(* promotions-engine.js: calculateProgress.  percentage is the fraction       *)
(* num / den (den > 0), as the source computes it without rounding.           *)

Frac(n, d) == [num |-> n, den |-> d]

\* lines 357-361 without the `if (current < target)` around them
ThresholdProgressUncapped(p, current, target, unlockMessage) ==
  [percentage |-> Frac(current * 100, target), remaining |-> target - current,
   nextThreshold |-> Some(target), message |-> unlockMessage]

\* one minQuantity / minCartValue dimension, written over the progress object p
ThresholdProgress(p, current, target, unlockMessage) ==
  IF current < target
  THEN [percentage |-> Frac(current * 100, target), remaining |-> target - current,
        nextThreshold |-> Some(target), message |-> unlockMessage]
  ELSE [p EXCEPT !.percentage = Frac(100, 1), !.remaining = 0, !.message = "active"]

\* lines 392-405: nextTier at position n of sortedTiers (0: none), prevTier at position k
TierStep(p, sortedTiers, n, k, current) ==
  IF n # 0
  THEN [percentage |->
          Frac((current - (IF k # 0 THEN sortedTiers[k].threshold ELSE 0)) * 100,
               sortedTiers[n].threshold - (IF k # 0 THEN sortedTiers[k].threshold ELSE 0)),
        remaining |-> sortedTiers[n].threshold - current,
        nextThreshold |-> Some(sortedTiers[n].threshold),
        message |-> "add_for_tier"]
  ELSE [p EXCEPT !.percentage = Frac(100, 1), !.message = "max"]

\* lines 389-393: the two finds on the tiers sorted by ascending threshold
TierProgress(p, sortedTiers, current) ==
  TierStep(p, sortedTiers,
           FirstIndex([j \in 1..Len(sortedTiers) |-> current < sortedTiers[j].threshold]),
           FirstIndex([j \in 1..Len(sortedTiers) |-> sortedTiers[j].threshold <= current]),
           current)

\* the comparator (a, b) => a.threshold - b.threshold as sort keys
AscendingThresholds(list) == [i \in 1..Len(list) |-> list[i].threshold]

\* lines 387-406, s being the outcome of the sort: the progress object and
\* promo.discountTiers as the sort leaves it
TieredProgress(p, s, tiers, current) ==
  [threw |-> FALSE, progress |-> TierProgress(p, s.sorted, current),
   tiers |-> Some([tiers EXCEPT !.list = s.source])]

InitialProgress ==
  [percentage |-> Frac(0, 1), remaining |-> 0, nextThreshold |-> Null, message |-> ""]

\* lines 353-367
QuantityProgress(p, cond, c) ==
  IF TruthyNum(cond.minQuantity)
  THEN ThresholdProgress(p, c.totalItems, Val(cond.minQuantity), "add_products")
  ELSE p

\* lines 370-384
ValueProgress(p, cond, c) ==
  IF TruthyNum(cond.minCartValue)
  THEN ThresholdProgress(p, c.subtotal, Val(cond.minCartValue), "add_value")
  ELSE p

\* lines 387-408, p being the progress object after the first two dimensions
ProgressAfterThresholds(p, c, promo) ==
  IF promo.type = "TIERED" /\ promo.discountTiers # Null
     /\ Val(promo.discountTiers).mode # "cumulative"
  THEN TieredProgress(p, SpreadSort(Val(promo.discountTiers).list,
                                    AscendingThresholds(Val(promo.discountTiers).list)),
                      Val(promo.discountTiers), c.totalItems)
  ELSE [threw |-> FALSE, progress |-> p, tiers |-> promo.discountTiers]

\* calculateProgress(cart, promo): threw (reading cond.minQuantity of a null
\* conditions), the returned progress object, and promo.discountTiers as the call leaves it
calculateProgress(c, promo) ==
  IF promo.conditions = Null
  THEN [threw |-> TRUE, progress |-> InitialProgress, tiers |-> promo.discountTiers]
  ELSE ProgressAfterThresholds(
         ValueProgress(QuantityProgress(InitialProgress, Val(promo.conditions), c),
                       Val(promo.conditions), c),
         c, promo)

-----------------------------------------------------------------------------
(* promotions-engine.js: calculatePromotions.  The loop state st carries the   *)
(* locals of the function (totalDiscount, appliedPromotions, giftProducts,     *)
(* processedPromoIds), how the loop ended (stopped by break, threw), the       *)
(* number of promotionUsage.count queries it made (lookups), and the objects   *)
(* it was handed, as it leaves them (cart, promos).                            *)

\* prisma.promotionUsage.count({where: {promotionId, customerEmail}})
UsageCount(usage, promotionId, email) ==
  Cardinality({k \in 1..Len(usage) :
                 /\ usage[k].promotionId = promotionId
                 /\ Some(usage[k].customerEmail) = email})

\* the loop without the check of line 38
NeverProcessed(st, promo) == FALSE

\* line 38: the promotion was already accepted in this invocation
AlreadyProcessed(st, promo) == promo.id \in st.processedPromoIds

\* line 41: the total usage limit is reached
TotalLimitReached(promo) ==
  TruthyNum(promo.maxUsesTotal) /\ promo.usageCount >= Val(promo.maxUsesTotal)

\* line 43 without the test of userEmail
ConsultsUsageWithoutEmail(promo, email) == TruthyNum(promo.maxUsesPerUser)

\* line 43: the per-user usage is looked up
ConsultsUsage(promo, email) == TruthyNum(promo.maxUsesPerUser) /\ TruthyStr(email)

\* line 50: the per-user limit is reached
UserLimitReached(promo, email, usage) ==
  UsageCount(usage, promo.id, email) >= Val(promo.maxUsesPerUser)

\* line 79 with every promotion taken as combinable
AlwaysCombines(promo) == TRUE

\* line 79
canCombine(promo) == TruthyObj(promo.combinesWith) /\ Len(Val(promo.combinesWith)) > 0

\* lines 60-84 with the engine itself counting the use on the promotion record
AcceptAndCount(st, i, result) ==
  [st EXCEPT
     !.totalDiscount = @ + result.discount,
     !.appliedPromotions = Append(@, [id |-> st.promos[i].id, name |-> st.promos[i].name,
                                      type |-> st.promos[i].type,
                                      discount |-> result.discount,
                                      details |-> result.details]),
     !.processedPromoIds = @ \cup {st.promos[i].id},
     !.giftProducts = IF TruthyObj(result.giftProduct)
                      THEN Append(@, Val(result.giftProduct)) ELSE @,
     !.stopped = ~canCombine(st.promos[i]),
     !.promos[i].usageCount = @ + 1]

\* lines 60-84 recording the part of the discount the subtotal still covers
AcceptWithinSubtotal(st, i, result) ==
  [st EXCEPT
     !.totalDiscount = @ + result.discount,
     !.appliedPromotions = Append(@, [id |-> st.promos[i].id, name |-> st.promos[i].name,
                                      type |-> st.promos[i].type,
                                      discount |-> Min(result.discount,
                                                       Max(0, st.cart.subtotal - st.totalDiscount)),
                                      details |-> result.details]),
     !.processedPromoIds = @ \cup {st.promos[i].id},
     !.giftProducts = IF TruthyObj(result.giftProduct)
                      THEN Append(@, Val(result.giftProduct)) ELSE @,
     !.stopped = ~canCombine(st.promos[i])]

\* lines 60-84 with `unshift` for the `push` of line 70
AcceptInFront(st, i, result) ==
  [st EXCEPT
     !.totalDiscount = @ + result.discount,
     !.appliedPromotions = <<[id |-> st.promos[i].id, name |-> st.promos[i].name,
                              type |-> st.promos[i].type,
                              discount |-> result.discount,
                              details |-> result.details]>> \o @,
     !.processedPromoIds = @ \cup {st.promos[i].id},
     !.giftProducts = IF TruthyObj(result.giftProduct)
                      THEN Append(@, Val(result.giftProduct)) ELSE @,
     !.stopped = ~canCombine(st.promos[i])]

\* lines 60-84: the promotion at position i is accepted
Accept(st, i, result) ==
  [st EXCEPT
     !.totalDiscount = @ + result.discount,
     !.appliedPromotions = Append(@, [id |-> st.promos[i].id, name |-> st.promos[i].name,
                                      type |-> st.promos[i].type,
                                      discount |-> result.discount,
                                      details |-> result.details]),
     !.processedPromoIds = @ \cup {st.promos[i].id},
     !.giftProducts = IF TruthyObj(result.giftProduct)
                      THEN Append(@, Val(result.giftProduct)) ELSE @,
     !.stopped = ~canCombine(st.promos[i])]

\* the arrays the calculator sorted, as it left them
AfterCalculator(st, i, result) ==
  [st EXCEPT !.cart.items = result.items, !.promos[i].discountTiers = result.tiers]

\* lines 57-87 with only a positive discount accepted
DiscountedIfPositive(st, i, result) ==
  IF result.threw THEN [st EXCEPT !.threw = TRUE]
  ELSE IF result.discount > 0
       THEN Accept(AfterCalculator(st, i, result), i, result)
       ELSE AfterCalculator(st, i, result)

\* lines 57-87 with `result.discount !== 0` for the `result.discount > 0` of line 59
DiscountedIfNotZero(st, i, result) ==
  IF result.threw THEN [st EXCEPT !.threw = TRUE]
  ELSE IF result.discount # 0 \/ TruthyObj(result.giftProduct)
       THEN Accept(AfterCalculator(st, i, result), i, result)
       ELSE AfterCalculator(st, i, result)

\* lines 57-87 with the combinability test of lines 79-84 outside the `if` of line 59
DiscountedThenBreak(st, i, result) ==
  IF result.threw THEN [st EXCEPT !.threw = TRUE]
  ELSE IF result.discount > 0 \/ TruthyObj(result.giftProduct)
       THEN Accept(AfterCalculator(st, i, result), i, result)
       ELSE [AfterCalculator(st, i, result) EXCEPT !.stopped = ~canCombine(st.promos[i])]

\* lines 57-87, result being what calculatePromoDiscount returned
Discounted(st, i, result) ==
  IF result.threw THEN [st EXCEPT !.threw = TRUE]
  ELSE IF result.discount > 0 \/ TruthyObj(result.giftProduct)
       THEN Accept(AfterCalculator(st, i, result), i, result)
       ELSE AfterCalculator(st, i, result)

\* lines 54-57, cond being what checkConditions returned
Conditioned(st, i, cond) ==
  IF cond.threw THEN [st EXCEPT !.threw = TRUE]
  ELSE IF ~cond.value THEN st
  ELSE Discounted(st, i, calculatePromoDiscount(st.promos[i], st.cart))

\* lines 44-49: one promotionUsage.count query
Looked(st) == [st EXCEPT !.lookups = @ + 1]

\* lines 38-87: one iteration of the loop, on the promotion at position i
Iteration(st, i, email, usage) ==
  IF AlreadyProcessed(st, st.promos[i]) THEN st
  ELSE IF TotalLimitReached(st.promos[i]) THEN st
  ELSE IF ConsultsUsage(st.promos[i], email)
       THEN IF UserLimitReached(st.promos[i], email, usage) THEN Looked(st)
            ELSE Conditioned(Looked(st), i, checkConditions(st.promos[i], st.cart))
       ELSE Conditioned(st, i, checkConditions(st.promos[i], st.cart))

\* lines 36-88: the iterations from position i on, until the list ends, a break or a throw
RECURSIVE Loop(_, _, _, _)
Loop(st, i, email, usage) ==
  IF i > Len(st.promos) \/ st.stopped \/ st.threw THEN st
  ELSE Loop(Iteration(st, i, email, usage), i + 1, email, usage)

\* lines 91-94 without the clamp
Unclamped(totalDiscount, maxDiscount) == totalDiscount

\* lines 91-94
Clamp(totalDiscount, maxDiscount) ==
  IF totalDiscount > maxDiscount THEN maxDiscount ELSE totalDiscount

\* lines 30-33: the locals before the loop
LoopStart(c, activePromos) ==
  [totalDiscount |-> 0, appliedPromotions |-> <<>>, giftProducts |-> <<>>,
   processedPromoIds |-> {}, stopped |-> FALSE, threw |-> FALSE,
   lookups |-> 0, cart |-> c, promos |-> activePromos]

\* lines 90-101, st being the state the loop ended in
Outcome(st) ==
  [threw |-> st.threw,
   totalDiscount |-> Clamp(st.totalDiscount, st.cart.subtotal),
   appliedPromotions |-> st.appliedPromotions,
   giftProducts |-> st.giftProducts,
   finalTotal |-> st.cart.subtotal - Clamp(st.totalDiscount, st.cart.subtotal),
   lookups |-> st.lookups,
   cart |-> st.cart,
   promos |-> st.promos]

\* calculatePromotions(cart, userEmail, prisma), activePromos being what
\* prisma.promotion.findMany returned and usage the PromotionUsage rows
calculatePromotions(c, email, activePromos, usage) ==
  Outcome(Loop(LoopStart(c, activePromos), 1, email, usage))

-----------------------------------------------------------------------------
(* The inputs: products, carts as server.js builds them, promotions, usage rows *)

\* prisma/seed.js: the two products, prices in cents
Products ==
  [hoody |-> [name |-> "Hoody", category |-> "felpe", basePrice |-> 4900],
   girocollo |-> [name |-> "Girocollo", category |-> "girocolli", basePrice |-> 4400]]

ProductIds == DOMAIN Products

\* the items of a request body: one line, or two lines of different products
RequestLines ==
  {[productId |-> pid, quantity |-> q, color |-> "Maroon", size |-> "M"] :
     pid \in ProductIds, q \in 1..MaxQty}
RequestItems ==
  {<<l>> : l \in RequestLines}
    \cup {p \in {<<l1, l2>> : l1 \in RequestLines, l2 \in RequestLines} :
            p[1].productId # p[2].productId}

\* server.js, POST /api/orders and POST /api/promotions/calculate: the cart lines
CartItems(items) ==
  [i \in 1..Len(items) |->
     [productId |-> items[i].productId, color |-> items[i].color, size |-> items[i].size,
      quantity |-> items[i].quantity,
      unitPrice |-> Products[items[i].productId].basePrice,
      product |-> Products[items[i].productId]]]

BuildCart(items, shippingCost) ==
  [items |-> CartItems(items),
   subtotal |-> SumSeq([i \in 1..Len(items) |->
                          Products[items[i].productId].basePrice * items[i].quantity]),
   totalItems |-> SumSeq([i \in 1..Len(items) |-> items[i].quantity]),
   shippingCost |-> shippingCost]

\* POST /api/orders: shippingCost: 0
OrderCart(items) == BuildCart(items, Some(0))
\* POST /api/promotions/calculate: shippingCost: 5
PreviewCart(items) == BuildCart(items, Some(500))

\* a Promotion row as POST /api/admin/promotions creates it when only name, slug
\* and type are given
Promotion(id, type) ==
  [id |-> id, name |-> id, type |-> type, discountValue |-> Null, discountTiers |-> Null,
   conditions |-> Some(NoConditions), bogoConfig |-> Null, giftProduct |-> Null,
   maxUsesTotal |-> Null, maxUsesPerUser |-> Null, usageCount |-> 0,
   combinesWith |-> Some(<<>>)]

Tier(threshold, discount, type) ==
  [threshold |-> threshold, discount |-> discount, type |-> type]

\* the promotions the lists of the model are drawn from
Catalogue ==
  { \* 50 %, combinable, one use per customer
    [Promotion("half", "PERCENTAGE") EXCEPT
       !.discountValue = Some(50), !.combinesWith = Some(<<"gift">>),
       !.maxUsesPerUser = Some(1)],
    \* 60.00 off, exclusive, one of its two uses left
    [Promotion("minus60", "FIXED") EXCEPT
       !.discountValue = Some(6000), !.maxUsesTotal = Some(2), !.usageCount = 1],
    \* pay 30.00, combinable, all its uses taken
    [Promotion("pay30", "PRICE_FIXED") EXCEPT
       !.discountValue = Some(3000), !.combinesWith = Some(<<"half">>),
       !.maxUsesTotal = Some(1), !.usageCount = 1],
    \* buy one get one free on a cart of 2 or more, combinable, maxUsesPerUser 0
    [Promotion("bogo", "BOGO") EXCEPT
       !.bogoConfig = Some([buy |-> 1, get |-> 1, discountOnGet |-> 100,
                            applyOnCheapest |-> TRUE]),
       !.combinesWith = Some(<<"half">>), !.maxUsesPerUser = Some(0)],
    \* progressive tiers, stored in ascending order, exclusive
    [Promotion("tiers", "TIERED") EXCEPT
       !.discountTiers = Some(TierList(<<Tier(2, 10, "PERCENTAGE"), Tier(3, 2000, "FIXED")>>)),
       !.conditions = Some([NoConditions EXCEPT !.minQuantity = Some(2)])],
    \* 5.00 per 2 items, at most 5.00, combinable, two uses per customer
    [Promotion("bulk", "TIERED") EXCEPT
       !.discountTiers = Some(CumulativeTiers(2, 500, "FIXED", Some(500))),
       !.combinesWith = Some(<<"half">>), !.maxUsesPerUser = Some(2)],
    \* a gift, combinesWith absent
    [Promotion("gift", "FREE_GIFT") EXCEPT
       !.giftProduct = Some("sticker"), !.combinesWith = Null],
    \* free shipping, combinable, maxUsesTotal 0
    [Promotion("ship", "FREE_SHIPPING") EXCEPT
       !.combinesWith = Some(<<"half">>), !.maxUsesTotal = Some(0)] }

\* promotions POST /api/admin/promotions stores without the data their type
\* needs, and a promotion of a type the engine does not know
Misconfigured ==
  { [Promotion("notiers", "TIERED") EXCEPT !.combinesWith = Some(<<"half">>)],
    [Promotion("noconfig", "BOGO") EXCEPT !.combinesWith = Some(<<"half">>)],
    [Promotion("legacy", "BUNDLE") EXCEPT
       !.discountValue = Some(500), !.combinesWith = Some(<<"half">>)] }

\* a promotion object without conditions, as a caller of the exported functions
\* can pass it
Unconditioned ==
  { [Promotion("nocond", "PERCENTAGE") EXCEPT
       !.discountValue = Some(10), !.conditions = Null,
       !.combinesWith = Some(<<"half">>)] }

\* promotions for carts that collect gifts: two gifts, the first of them
\* combinable, an exclusive FREE_GIFT without gift, an exclusive percentage for
\* two items or more, a combinable percentage and a combinable negative amount
GiftCatalogue ==
  { [Promotion("cap", "FREE_GIFT") EXCEPT
       !.giftProduct = Some("cap"), !.combinesWith = Some(<<"gift">>)],
    [Promotion("gift", "FREE_GIFT") EXCEPT
       !.giftProduct = Some("sticker"), !.combinesWith = Null],
    Promotion("nogift", "FREE_GIFT"),
    [Promotion("pair", "PERCENTAGE") EXCEPT
       !.discountValue = Some(20),
       !.conditions = Some([NoConditions EXCEPT !.minQuantity = Some(2)])],
    [Promotion("tenth", "PERCENTAGE") EXCEPT
       !.discountValue = Some(10), !.combinesWith = Some(<<"gift">>)],
    \* a negative discountValue, which POST /api/admin/promotions stores as it is
    [Promotion("surcharge", "FIXED") EXCEPT
       !.discountValue = Some(-500), !.combinesWith = Some(<<"gift">>)] }

AllPromotions == Catalogue \cup Misconfigured \cup Unconditioned \cup GiftCatalogue

PromoById(id) == CHOOSE p \in AllPromotions : p.id = id

\* the lists of exactly n promotions of the set from (an id may occur more than once)
RECURSIVE ListsOf(_, _)
ListsOf(from, n) ==
  IF n = 0 THEN {<<>>} ELSE {Append(l, p) : l \in ListsOf(from, n - 1), p \in from}

\* the lists of at most n promotions
PromoLists(from, n) == UNION {ListsOf(from, k) : k \in 0..n}

UsageRow(promotionId, customerEmail) ==
  [promotionId |-> promotionId, customerEmail |-> customerEmail]

\* the PromotionUsage tables of the model
UsageLogs ==
  { <<>>,
    <<UsageRow("half", "alice"), UsageRow("bulk", "alice")>>,
    <<UsageRow("half", "bob"), UsageRow("bulk", "alice"), UsageRow("bulk", "alice")>> }

-----------------------------------------------------------------------------
(* The inputs of the single functions: carts whose lines differ in size and   *)
(* color, and one promotion per shape of conditions and of discount data      *)

\* the lines of a request body, of either size and color
VariantLines ==
  {[productId |-> pid, quantity |-> q, color |-> col, size |-> sz] :
     pid \in ProductIds, q \in 1..MaxQty, col \in {"Maroon", "Blue Nesio"},
     sz \in {"M", "L"}}

\* one line, or two lines that may be of the same product
VariantItems ==
  {<<l>> : l \in RequestLines}
    \cup {<<l1, l2>> : l1 \in RequestLines, l2 \in VariantLines}

\* POST /api/promotions/progress: the cart has no shippingCost
ProgressCart(items) == BuildCart(items, Null)

\* a promotion that only differs from the default row by its conditions
WithConditions(id, cond) ==
  [Promotion(id, "PERCENTAGE") EXCEPT !.discountValue = Some(10), !.conditions = Some(cond)]

\* conditions made of quantity and value bounds, absent, 0 or met exactly by some cart
BoundConditions ==
  {[NoConditions EXCEPT !.minQuantity = a, !.maxQuantity = b,
                        !.minCartValue = v, !.maxCartValue = w] :
     a \in {Null, Some(0), Some(2)}, b \in {Null, Some(0), Some(2)},
     v \in {Null, Some(9300)}, w \in {Null, Some(9300)}}

\* conditions made of a products list (with or without mustContainAll) or of a
\* categories list
ListConditions ==
  {[NoConditions EXCEPT !.products = Some(l), !.attributes = at] :
     l \in {<<>>, <<"hoody">>, <<"hoody", "girocollo">>, <<"cap", "girocollo">>},
     at \in {Null, Some(NoAttributes), Some([NoAttributes EXCEPT !.mustContainAll = TRUE])}}
    \cup {[NoConditions EXCEPT !.categories = Some(l)] :
            l \in {<<>>, <<"felpe">>, <<"cappelli", "girocolli">>, <<"cappelli">>}}

\* conditions made of one attribute flag
AttributeConditions ==
  {[NoConditions EXCEPT !.attributes = Some(at)] :
     at \in {[NoAttributes EXCEPT !.sameSize = TRUE],
             [NoAttributes EXCEPT !.sameTaglia = TRUE],
             [NoAttributes EXCEPT !.sameColor = TRUE],
             [NoAttributes EXCEPT !.sameProduct = TRUE]}}

ConditionVariants ==
  {WithConditions("cond", cond) :
     cond \in BoundConditions \cup ListConditions \cup AttributeConditions}

\* the types whose discount is computed from discountValue or the cart alone,
\* and a type outside the enum
ValueVariants ==
  {[Promotion("value", t.type) EXCEPT !.discountValue = Some(t.value)] :
     t \in {[type |-> "PERCENTAGE", value |-> 10], [type |-> "PERCENTAGE", value |-> 100],
            [type |-> "FIXED", value |-> 3000], [type |-> "FIXED", value |-> 20000],
            [type |-> "PRICE_FIXED", value |-> 3000], [type |-> "PRICE_FIXED", value |-> 20000],
            [type |-> "FREE_SHIPPING", value |-> 10], [type |-> "BUNDLE", value |-> 10]}}

\* cumulative tiers: per 1 or 2 items, fixed or percentage, maxDiscount absent, 0 or set
CumulativeVariants ==
  {[Promotion("cumulative", "TIERED") EXCEPT
      !.discountTiers = Some(CumulativeTiers(perUnit, t.discount, t.type, maxDiscount))] :
     perUnit \in {1, 2},
     t \in {[discount |-> 500, type |-> "FIXED"], [discount |-> 30, type |-> "PERCENTAGE"]},
     maxDiscount \in {Null, Some(0), Some(50)}}

\* progressive tiers, stored in ascending, descending and no order
ProgressiveVariants ==
  {[Promotion("progressive", "TIERED") EXCEPT !.discountTiers = Some(TierList(l))] :
     l \in {<<Tier(2, 10, "PERCENTAGE"), Tier(3, 2000, "FIXED")>>,
            <<Tier(3, 2000, "FIXED"), Tier(2, 10, "PERCENTAGE")>>,
            <<Tier(2, 1000, "FIXED"), Tier(4, 30, "PERCENTAGE"), Tier(1, 500, "FIXED"),
              Tier(3, 20, "PERCENTAGE")>>,
            <<Tier(1, 6000, "FIXED")>>,
            <<>>}}

BogoVariants ==
  {[Promotion("bogo", "BOGO") EXCEPT !.bogoConfig = Some(config)] :
     config \in {[buy |-> 1, get |-> 1, discountOnGet |-> 100, applyOnCheapest |-> TRUE],
                 [buy |-> 1, get |-> 1, discountOnGet |-> 50, applyOnCheapest |-> FALSE],
                 [buy |-> 2, get |-> 1, discountOnGet |-> 100, applyOnCheapest |-> TRUE]}}

GiftVariants ==
  {[Promotion("gift", "FREE_GIFT") EXCEPT !.giftProduct = g] : g \in {Null, Some("sticker")}}

\* promotions with one, two or three progress dimensions: minQuantity,
\* minCartValue and a tier list
DimensionVariants ==
  {[Promotion("dimensions", t.type) EXCEPT
      !.discountTiers = t.tiers,
      !.conditions = Some([NoConditions EXCEPT !.minQuantity = q, !.minCartValue = v])] :
     q \in {Null, Some(3)}, v \in {Null, Some(9300)},
     t \in {[type |-> "PERCENTAGE", tiers |-> Null],
            [type |-> "TIERED",
             tiers |-> Some(TierList(<<Tier(2, 10, "PERCENTAGE"), Tier(3, 2000, "FIXED")>>))]}}

Variants ==
  ConditionVariants \cup ValueVariants \cup CumulativeVariants \cup ProgressiveVariants
    \cup BogoVariants \cup GiftVariants \cup DimensionVariants

-----------------------------------------------------------------------------
(* The state machine *)

NoCall == [fn |-> "none"]

\* a request that has not reached the server yet
NotSent == [pc |-> "idle", customerEmail |-> "", appliedPromotions |-> <<>>, next |-> 1]

\* the POST /api/orders requests of the model: two clients
OrderRequests == {"first", "second"}

NoRequests == [r \in OrderRequests |-> NotSent]

Init ==
  /\ \E items \in RequestItems :
       \/ cart = OrderCart(items) /\ userEmail = Some("alice")
       \/ cart = PreviewCart(items) /\ userEmail \in {Null, Some("alice")}
  /\ promotions \in PromoLists(Catalogue, MaxPromos)
  /\ promotionUsage \in UsageLogs
  /\ out = NoCall
  /\ requests = NoRequests

\* what calculatePromotions returned
Returned(r) ==
  [totalDiscount |-> r.totalDiscount, appliedPromotions |-> r.appliedPromotions,
   giftProducts |-> r.giftProducts, finalTotal |-> r.finalTotal]

\* the call just before, when it was a call of calculatePromotions too
Before(o) ==
  IF o.fn = "calculatePromotions"
  THEN Some([threw |-> o.threw, result |-> o.result]) ELSE Null

\* what a call of calculatePromotions that ended as r leaves in out
CalculatePromotionsCall(r, o) ==
  [fn |-> "calculatePromotions", threw |-> r.threw, result |-> Returned(r),
   lookups |-> r.lookups, before |-> Before(o)]

\* a call of calculatePromotions(cart, userEmail, prisma)
CalculatePromotions ==
  LET r == calculatePromotions(cart, userEmail, promotions, promotionUsage) IN
  /\ out' = CalculatePromotionsCall(r, out)
  /\ cart' = r.cart
  /\ promotions' = r.promos
  /\ UNCHANGED <<userEmail, promotionUsage, requests>>

\* a call of checkConditions(promo, cart)
CheckConditions ==
  \E i \in 1..Len(promotions) :
    LET r == checkConditions(promotions[i], cart) IN
    /\ out' = [fn |-> "checkConditions", promo |-> i, threw |-> r.threw, value |-> r.value]
    /\ UNCHANGED <<cart, userEmail, promotions, promotionUsage, requests>>

\* what a call of calculatePromoDiscount on the promotion at position i leaves in out
CalculatePromoDiscountCall(i, r) ==
  [fn |-> "calculatePromoDiscount", promo |-> i, threw |-> r.threw,
   discount |-> r.discount, giftProduct |-> r.giftProduct, details |-> r.details]

\* a call of calculatePromoDiscount(promo, cart)
CalculatePromoDiscount ==
  \E i \in 1..Len(promotions) :
    LET r == calculatePromoDiscount(promotions[i], cart) IN
    /\ out' = CalculatePromoDiscountCall(i, r)
    /\ cart' = [cart EXCEPT !.items = r.items]
    /\ promotions' = [promotions EXCEPT ![i].discountTiers = r.tiers]
    /\ UNCHANGED <<userEmail, promotionUsage, requests>>

\* a call of calculateProgress(cart, promo)
CalculateProgress ==
  \E i \in 1..Len(promotions) :
    LET r == calculateProgress(cart, promotions[i]) IN
    /\ out' = [fn |-> "calculateProgress", promo |-> i, threw |-> r.threw,
               progress |-> r.progress]
    /\ promotions' = [promotions EXCEPT ![i].discountTiers = r.tiers]
    /\ UNCHANGED <<cart, userEmail, promotionUsage, requests>>

\* the selector on lists of well-formed promotions
Next == CalculatePromotions

Spec == Init /\ [][Next]_vars

\* each of the four exported functions on one promotion, any of AllPromotions
InitCalls ==
  /\ \E items \in RequestItems :
       \/ cart = OrderCart(items) /\ userEmail = Some("alice")
       \/ cart = PreviewCart(items) /\ userEmail \in {Null, Some("alice")}
  /\ promotions \in {<<p>> : p \in AllPromotions}
  /\ promotionUsage \in UsageLogs
  /\ out = NoCall
  /\ requests = NoRequests

NextCalls ==
  \/ CalculatePromotions
  \/ CheckConditions
  \/ CalculatePromoDiscount
  \/ CalculateProgress

SpecCalls == InitCalls /\ [][NextCalls]_vars

\* the selector on lists that may hold misconfigured promotions, as the admin
\* endpoint can store them
InitAny ==
  /\ \E items \in RequestItems :
       /\ Len(items) = 1
       /\ \/ cart = OrderCart(items) /\ userEmail = Some("alice")
          \/ cart = PreviewCart(items) /\ userEmail \in {Null, Some("alice")}
  /\ promotions \in PromoLists(Catalogue \cup Misconfigured, MaxPromos)
  /\ promotionUsage = <<>>
  /\ out = NoCall
  /\ requests = NoRequests

SpecAny == InitAny /\ [][Next]_vars

\* the selector on lists of gift promotions
InitGifts ==
  /\ \E items \in RequestItems :
       \/ cart = OrderCart(items) /\ userEmail = Some("alice")
       \/ cart = PreviewCart(items) /\ userEmail \in {Null, Some("alice")}
  /\ promotions \in PromoLists(GiftCatalogue, MaxPromos)
  /\ promotionUsage = <<>>
  /\ out = NoCall
  /\ requests = NoRequests

SpecGifts == InitGifts /\ [][Next]_vars

\* checkConditions, calculatePromoDiscount and calculateProgress on one promotion,
\* any of Variants, and a cart of any of the three endpoints
InitFunctions ==
  /\ \E items \in VariantItems :
       cart \in {OrderCart(items), PreviewCart(items), ProgressCart(items)}
  /\ userEmail = Null
  /\ promotions \in {<<p>> : p \in Variants}
  /\ promotionUsage = <<>>
  /\ out = NoCall
  /\ requests = NoRequests

NextFunctions ==
  \/ CheckConditions
  \/ CalculatePromoDiscount
  \/ CalculateProgress

SpecFunctions == InitFunctions /\ [][NextFunctions]_vars

-----------------------------------------------------------------------------
(* The endpoints of server.js that call the engine.  A POST /api/orders       *)
(* request runs from one `await` to the next in one step; requests interleave *)
(* between the steps.                                                         *)

\* the customer of the requests
Customers == {"alice"}

\* the Promotion tables of the endpoints: rows of different ids, the limits
\* they have not reached being positive
OrderCatalogue == {PromoById(id) : id \in {"half", "minus60", "bulk"}}

PromotionTables ==
  {l \in PromoLists(OrderCatalogue, MaxPromos) :
     \A i, j \in 1..Len(l) : l[i].id = l[j].id => i = j}

\* the request bodies of the endpoints: one line of Hoody
EndpointItems == {<<l>> : l \in {m \in RequestLines : m.productId = "hoody"}}

\* where a request is once it has handled next - 1 of its applied promotions
AfterApplied(appliedPromotions, next) ==
  IF next > Len(appliedPromotions) THEN "done" ELSE "usage"

\* POST /api/orders, lines 1197-1337: the request prices its cart and
\* prisma.order.create stores the order with its appliedPromotions
CreateOrder(r) ==
  /\ requests[r].pc = "idle"
  /\ \E items \in EndpointItems, customerEmail \in Customers :
       LET promoResult == calculatePromotions(OrderCart(items), Some(customerEmail),
                                              promotions, promotionUsage) IN
       requests' = [requests EXCEPT ![r] =
                      [pc |-> IF promoResult.threw THEN "failed"
                              ELSE AfterApplied(promoResult.appliedPromotions, 1),
                       customerEmail |-> customerEmail,
                       appliedPromotions |-> promoResult.appliedPromotions,
                       next |-> 1]]
  /\ UNCHANGED <<cart, userEmail, promotions, promotionUsage, out>>

\* lines 1358-1365: prisma.promotionUsage.create for the next applied promotion
RecordUsage(r) ==
  /\ requests[r].pc = "usage"
  /\ promotionUsage' = Append(promotionUsage,
                              UsageRow(requests[r].appliedPromotions[requests[r].next].id,
                                       requests[r].customerEmail))
  /\ requests' = [requests EXCEPT ![r].pc = "counter"]
  /\ UNCHANGED <<cart, userEmail, promotions, out>>

\* usageCount: { increment: 1 } without the `where` of line 1369
IncrementEveryRow(table, id) ==
  [i \in 1..Len(table) |-> [table[i] EXCEPT !.usageCount = @ + 1]]

\* usageCount: { increment: 1 } on the row of the given id
Increment(table, id) ==
  [i \in 1..Len(table) |->
     IF table[i].id = id THEN [table[i] EXCEPT !.usageCount = @ + 1] ELSE table[i]]

\* lines 1368-1371: prisma.promotion.update increments the counter
IncrementUsage(r) ==
  /\ requests[r].pc = "counter"
  /\ promotions' = Increment(promotions, requests[r].appliedPromotions[requests[r].next].id)
  /\ requests' = [requests EXCEPT
                    ![r].next = @ + 1,
                    ![r].pc = AfterApplied(requests[r].appliedPromotions,
                                           requests[r].next + 1)]
  /\ UNCHANGED <<cart, userEmail, promotionUsage, out>>

\* POST /api/promotions/calculate, lines 2849-2892
PreviewPromotions ==
  \E items \in EndpointItems, email \in {Null} \cup {Some(c) : c \in Customers} :
    LET result == calculatePromotions(PreviewCart(items), email, promotions,
                                      promotionUsage) IN
    /\ out' = CalculatePromotionsCall(result, NoCall)
    /\ cart' = result.cart
    /\ userEmail' = email
    /\ UNCHANGED <<promotions, promotionUsage, requests>>

\* POST /api/promotions/progress, lines 2895-2955
PromotionsProgress ==
  \E items \in EndpointItems :
    /\ out' = [fn |-> "progress",
               threw |-> \E i \in 1..Len(promotions) :
                           calculateProgress(ProgressCart(items), promotions[i]).threw,
               progress |-> [i \in 1..Len(promotions) |->
                               calculateProgress(ProgressCart(items),
                                                 promotions[i]).progress]]
    /\ cart' = ProgressCart(items)
    /\ UNCHANGED <<userEmail, promotions, promotionUsage, requests>>

InitOrders ==
  /\ cart = ProgressCart(<<>>)
  /\ userEmail = Null
  /\ promotions \in PromotionTables
  /\ promotionUsage = <<>>
  /\ out = NoCall
  /\ requests = NoRequests

NextOrders ==
  \/ \E r \in OrderRequests :
       CreateOrder(r) \/ RecordUsage(r) \/ IncrementUsage(r)
  \/ PreviewPromotions
  \/ PromotionsProgress

SpecOrders == InitOrders /\ [][NextOrders]_vars

-----------------------------------------------------------------------------
(* Properties of calculatePromotions *)

\* the last call was calculatePromotions and it returned
Priced == out.fn = "calculatePromotions" /\ ~out.threw

Applied == out.result.appliedPromotions

AppliedIds == {Applied[k].id : k \in 1..Len(Applied)}

\* the combinesWith of a promotion is empty or absent
Exclusive(promo) == promo.combinesWith = Null \/ promo.combinesWith = Some(<<>>)

\* the promotions with maxUsesPerUser unset
WithoutUserLimits(promos) ==
  [i \in 1..Len(promos) |-> [promos[i] EXCEPT !.maxUsesPerUser = Null]]

\* C1: the totalDiscount calculatePromotions returns is at most cart.subtotal
C1_TotalDiscountAtMostSubtotal ==
  Priced => out.result.totalDiscount <= cart.subtotal

\* the discounts of the applied promotions add up to more than the subtotal
C1_Witness ==
  /\ Priced
  /\ SumSeq([k \in 1..Len(Applied) |-> Applied[k].discount]) > cart.subtotal
  /\ out.result.totalDiscount = cart.subtotal

\* C2: appliedPromotions holds at most one promotion whose combinesWith is empty
\* or absent, and that one is its last element
C2_ExclusiveIsLast ==
  Priced =>
    \A k \in 1..Len(Applied) :
      Exclusive(PromoById(Applied[k].id)) => k = Len(Applied)

\* an exclusive promotion was accepted first and a percentage promotion after it
\* in the list, open to an anonymous cart, was not
C2_Witness ==
  /\ Priced
  /\ Len(promotions) = 2
  /\ Exclusive(promotions[1])
  /\ promotions[2].type = "PERCENTAGE"
  /\ userEmail = Null
  /\ AppliedIds = {promotions[1].id}

\* C3: a promotion id occurs at most once in appliedPromotions, also when the
\* list holds it more than once
C3_AppliedOnce ==
  Priced =>
    \A j, k \in 1..Len(Applied) : Applied[j].id = Applied[k].id => j = k

\* a combinable promotion that is twice in the list was accepted
C3_Witness ==
  /\ Priced
  /\ Len(promotions) = 2
  /\ promotions[1].id = promotions[2].id
  /\ ~Exclusive(promotions[1])
  /\ Len(Applied) = 1

\* C4: a promotion whose maxUsesTotal is set, whatever its value, and whose
\* usageCount has reached it is never in appliedPromotions
C4_TotalLimitRespected ==
  Priced =>
    \A k \in 1..Len(Applied) :
      PromoById(Applied[k].id).maxUsesTotal # Null
        => PromoById(Applied[k].id).usageCount < Val(PromoById(Applied[k].id).maxUsesTotal)

C6_AnonymousUnlimited ==
  (Priced /\ userEmail = Null) =>
    /\ out.lookups = 0
    /\ out.result = Returned(calculatePromotions(cart, userEmail,
                                                  WithoutUserLimits(promotions),
                                                  promotionUsage))

\* an anonymous cart got a promotion with a per-user limit of which usage rows exist
C6_Witness ==
  /\ Priced
  /\ userEmail = Null
  /\ \E k \in 1..Len(Applied) :
       /\ PromoById(Applied[k].id).maxUsesPerUser # Null
       /\ \E n \in 1..Len(promotionUsage) : promotionUsage[n].promotionId = Applied[k].id

\* C7: a misconfigured promotion never makes calculatePromotions end in an error,
\* and is not applied
C7_NeverThrows ==
  out.fn = "calculatePromotions" =>
    /\ ~out.threw
    /\ \A k \in 1..Len(Applied) : PromoById(Applied[k].id) \notin Misconfigured

\* C8: checkConditions is true when the conditions are absent or the empty object
C8_NoConditionsAlwaysEligible ==
  (/\ out.fn = "checkConditions"
   /\ promotions[out.promo].conditions \in {Null, Some(NoConditions)})
    => (~out.threw /\ out.value)

\* C9: a second calculatePromotions on the same cart, customer, promotions and
\* usage rows returns what the first returned
C9_SecondRunSame ==
  (out.fn = "calculatePromotions" /\ out.before # Null) =>
    Val(out.before) = [threw |-> out.threw, result |-> out.result]

\* the second run applied a promotion with a total limit, and a gift
C9_Witness ==
  /\ Priced
  /\ out.before # Null
  /\ \E k \in 1..Len(Applied) : PromoById(Applied[k].id).maxUsesTotal # Null
  /\ out.result.totalDiscount > 0

\* C10: the four exported functions leave the cart, the promotion records and
\* the usage rows as they were
C10_InputsUntouched ==
  [][/\ cart' = cart
     /\ promotions' = promotions
     /\ promotionUsage' = promotionUsage]_vars

\* calculatePromoDiscount priced a BOGO whose sort by ascending price puts the
\* second cart line first
C10_Witness ==
  /\ out.fn = "calculatePromoDiscount"
  /\ promotions[out.promo].type = "BOGO"
  /\ out.discount > 0
  /\ Len(cart.items) = 2
  /\ cart.items[1].unitPrice > cart.items[2].unitPrice

\* the promotion at position i is reached by the loop: no promotion before it
\* was accepted and exclusive
Reached(i) ==
  \A j \in 1..(i - 1) : promotions[j].id \in AppliedIds => ~Exclusive(promotions[j])

\* the applied promotions that carry a gift
AppliedWithGift == SelectSeq(Applied, LAMBDA a : PromoById(a.id).giftProduct # Null)

\* the sum of the discounts of the applied promotions that are not FREE_GIFT
PaidDiscounts ==
  SumSeq([k \in 1..Len(Applied) |->
            IF Applied[k].type = "FREE_GIFT" THEN 0 ELSE Applied[k].discount])

\* C15: a FREE_GIFT promotion with a gift, without conditions and limits, that
\* the loop reaches is applied with discount 0 and adds nothing to
\* totalDiscount; giftProducts holds the gifts of the applied promotions, in
\* the order they were applied
C15_GiftAccepted ==
  Priced =>
    /\ \A i \in 1..Len(promotions) :
         (/\ promotions[i].type = "FREE_GIFT"
          /\ promotions[i].giftProduct # Null
          /\ Reached(i))
           => \E k \in 1..Len(Applied) :
                Applied[k].id = promotions[i].id /\ Applied[k].discount = 0
    /\ out.result.giftProducts =
         [k \in 1..Len(AppliedWithGift) |-> Val(PromoById(AppliedWithGift[k].id).giftProduct)]
    /\ out.result.totalDiscount =
         IF PaidDiscounts > cart.subtotal THEN cart.subtotal ELSE PaidDiscounts

\* two gift promotions were applied: both gifts collected in order, nothing discounted
C15_Witness ==
  /\ Priced
  /\ Len(promotions) = 2
  /\ promotions[1].id = "cap"
  /\ promotions[2].id = "gift"
  /\ out.result.giftProducts = <<"cap", "sticker">>
  /\ out.result.totalDiscount = 0
  /\ Len(Applied) = 2

\* the ids of the list are distinct, as in every result of promotion.findMany
DistinctIds == \A i, j \in 1..Len(promotions) : promotions[i].id = promotions[j].id => i = j

\* a usage limit of the promotion is set and reached for this customer
LimitReached(promo) ==
  \/ promo.maxUsesTotal # Null /\ promo.usageCount >= Val(promo.maxUsesTotal)
  \/ /\ userEmail # Null
     /\ promo.maxUsesPerUser # Null
     /\ UsageCount(promotionUsage, promo.id, userEmail) >= Val(promo.maxUsesPerUser)

\* the promotion is eligible for the cart and worth a discount or a gift
Worth(promo) ==
  /\ checkConditions(promo, cart).value
  /\ \/ calculatePromoDiscount(promo, cart).discount > 0
     \/ calculatePromoDiscount(promo, cart).giftProduct # Null

\* C23: a promotion is applied exactly when no promotion before it was accepted
\* with an empty or absent combinesWith, its usage limits are not reached,
\* checkConditions is true and its discount is positive or its gift non-null;
\* the combinesWith list of an accepted promotion is never consulted
C23_AppliedExactlyWhen ==
  (Priced /\ DistinctIds) =>
    \A i \in 1..Len(promotions) :
      promotions[i].id \in AppliedIds
        <=> (Reached(i) /\ ~LimitReached(promotions[i]) /\ Worth(promotions[i]))

\* C24: a promotion that is not accepted never stops the loop, even when its
\* combinesWith is empty: a later promotion that is within its limits, eligible
\* and worth a discount or a gift is accepted unless an accepted exclusive
\* promotion comes before it
C24_RejectionNeverStops ==
  (Priced /\ DistinctIds) =>
    \A i, j \in 1..Len(promotions) :
      (/\ i < j
       /\ Exclusive(promotions[i])
       /\ promotions[i].id \notin AppliedIds
       /\ Reached(j) /\ ~LimitReached(promotions[j]) /\ Worth(promotions[j]))
        => promotions[j].id \in AppliedIds

\* an exclusive promotion priced at 0 without a gift was not accepted and the
\* promotion after it was
C24_Witness ==
  /\ Priced
  /\ Len(promotions) = 2
  /\ Exclusive(promotions[1])
  /\ checkConditions(promotions[1], cart).value
  /\ ~Worth(promotions[1])
  /\ AppliedIds = {promotions[2].id}
  /\ promotions[1].id # promotions[2].id

\* the discount fields of appliedPromotions
AppliedDiscounts == [k \in 1..Len(Applied) |-> Applied[k].discount]

\* C25: totalDiscount is min(cart.subtotal, sum of the discounts of
\* appliedPromotions), finalTotal is cart.subtotal - totalDiscount, and every
\* entry of appliedPromotions records the discount its calculator returned,
\* not reduced by the clamp
C25_TotalsFromApplied ==
  Priced =>
    /\ out.result.totalDiscount = Min(cart.subtotal, SumSeq(AppliedDiscounts))
    /\ out.result.finalTotal = cart.subtotal - out.result.totalDiscount
    /\ \A k \in 1..Len(Applied) :
         Applied[k].discount
           = calculatePromoDiscount(PromoById(Applied[k].id), cart).discount

\* two promotions were applied, the second one discounts and the recorded
\* discounts add up to more than the totalDiscount returned
C25_Witness ==
  /\ Priced
  /\ Len(Applied) = 2
  /\ Applied[2].discount > 0
  /\ SumSeq(AppliedDiscounts) > out.result.totalDiscount
  /\ out.result.finalTotal = 0

\* the entries of appliedPromotions are promotions of the list at increasing positions
Subsequence(applied, promos) ==
  \E f \in [1..Len(applied) -> 1..Len(promos)] :
    /\ \A k \in 1..Len(applied) : promos[f[k]].id = applied[k].id
    /\ \A k, l \in 1..Len(applied) : k < l => f[k] < f[l]

\* C26: appliedPromotions is a subsequence of the promotion list, in the list's order
C26_AppliedInListOrder ==
  Priced => Subsequence(Applied, promotions)

\* two different promotions were applied, in the order of the list
C26_Witness ==
  /\ Priced
  /\ Len(promotions) = 2
  /\ promotions[1].id # promotions[2].id
  /\ [k \in 1..Len(Applied) |-> Applied[k].id] = <<promotions[1].id, promotions[2].id>>

\* C30: on a cart with a non-negative subtotal every applied discount, the
\* totalDiscount and the finalTotal are not negative, and a promotion whose
\* calculator returns a negative discount is not applied
C30_NothingNegative ==
  (Priced /\ cart.subtotal >= 0) =>
    /\ \A k \in 1..Len(Applied) : Applied[k].discount >= 0
    /\ out.result.totalDiscount >= 0
    /\ out.result.finalTotal >= 0
    /\ \A i \in 1..Len(promotions) :
         calculatePromoDiscount(promotions[i], cart).discount < 0
           => promotions[i].id \notin AppliedIds

\* the first promotion of the list has a negative discount and only the
\* promotion after it was applied
C30_Witness ==
  /\ Priced
  /\ Len(promotions) = 2
  /\ calculatePromoDiscount(promotions[1], cart).discount < 0
  /\ promotions[2].id # promotions[1].id
  /\ AppliedIds = {promotions[2].id}
  /\ out.result.totalDiscount > 0

-----------------------------------------------------------------------------
(* Properties of the endpoints *)

\* C27: under any interleaving of order creations the usageCount of a promotion
\* never exceeds its maxUsesTotal
C27_UsageWithinLimit ==
  \A i \in 1..Len(promotions) :
    promotions[i].maxUsesTotal # Null
      => promotions[i].usageCount <= Val(promotions[i].maxUsesTotal)

\* the PromotionUsage rows of a promotion
UsageRows(id) == {n \in 1..Len(promotionUsage) : promotionUsage[n].promotionId = id}

\* the orders that ran to completion with the promotion among their appliedPromotions
OrdersApplying(id) ==
  {r \in OrderRequests :
     /\ requests[r].pc = "done"
     /\ \E k \in 1..Len(requests[r].appliedPromotions) :
          requests[r].appliedPromotions[k].id = id}

\* every request is still to be sent or has been answered
Completed == \A r \in OrderRequests : requests[r].pc \in {"idle", "done", "failed"}

\* C28: once the order creations have run to completion, the increase of each
\* promotion's usageCount is the number of PromotionUsage rows created for it,
\* one per order whose appliedPromotions hold it, whatever previews and
\* progress requests ran in between
C28_UsageCountedPerOrder ==
  Completed =>
    \A i \in 1..Len(promotions) :
      /\ promotions[i].usageCount - PromoById(promotions[i].id).usageCount
           = Cardinality(UsageRows(promotions[i].id))
      /\ Cardinality(UsageRows(promotions[i].id))
           = Cardinality(OrdersApplying(promotions[i].id))

\* two orders that applied the same promotion have completed and a preview
\* was the last call of the engine
C28_Witness ==
  /\ Completed
  /\ out.fn = "calculatePromotions"
  /\ \E i \in 1..Len(promotions) : Cardinality(OrdersApplying(promotions[i].id)) = 2

-----------------------------------------------------------------------------
(* Properties of checkConditions, calculatePromoDiscount and calculateProgress *)

\* the promotion the last call was made on, and its conditions
Called == promotions[out.promo]

CalledConditions == Val(Called.conditions)

\* C11: for conditions made of quantity and value bounds only, checkConditions is
\* true exactly when every present bound, of any value, 0 included, holds
\* inclusively
C11_PresentBoundsEnforced ==
  (out.fn = "checkConditions" /\ CalledConditions \in BoundConditions) =>
    /\ ~out.threw
    /\ out.value <=>
         /\ CalledConditions.minQuantity # Null
              => Val(CalledConditions.minQuantity) <= cart.totalItems
         /\ CalledConditions.maxQuantity # Null
              => cart.totalItems <= Val(CalledConditions.maxQuantity)
         /\ CalledConditions.minCartValue # Null
              => Val(CalledConditions.minCartValue) <= cart.subtotal
         /\ CalledConditions.maxCartValue # Null
              => cart.subtotal <= Val(CalledConditions.maxCartValue)

\* the elements of a list that is not null
Listed(list) == {Val(list)[k] : k \in 1..Len(Val(list))}

\* C12: a non-empty products list requires every listed id among the cart lines
\* when attributes.mustContainAll is true and at least one otherwise; a non-empty
\* categories list requires a cart line whose product category is listed
C12_ProductsAndCategories ==
  (out.fn = "checkConditions" /\ CalledConditions \in ListConditions) =>
    /\ ~out.threw
    /\ (CalledConditions.products # Null /\ Listed(CalledConditions.products) # {}) =>
         (out.value <=>
            IF CalledConditions.attributes # Null
               /\ Val(CalledConditions.attributes).mustContainAll
            THEN \A pid \in Listed(CalledConditions.products) :
                   \E i \in 1..Len(cart.items) : cart.items[i].productId = pid
            ELSE \E pid \in Listed(CalledConditions.products) :
                   \E i \in 1..Len(cart.items) : cart.items[i].productId = pid)
    /\ (CalledConditions.categories # Null /\ Listed(CalledConditions.categories) # {}) =>
         (out.value <=>
            \E i \in 1..Len(cart.items) :
              cart.items[i].product.category \in Listed(CalledConditions.categories))

\* mustContainAll with two listed products of which the cart holds one: not eligible
C12_Witness ==
  /\ out.fn = "checkConditions"
  /\ CalledConditions \in ListConditions
  /\ CalledConditions.products = Some(<<"hoody", "girocollo">>)
  /\ CalledConditions.attributes # Null
  /\ Val(CalledConditions.attributes).mustContainAll
  /\ \A i \in 1..Len(cart.items) : cart.items[i].productId = "hoody"
  /\ ~out.value

\* C13: with attributes.sameSize (sameColor, sameProduct) true, checkConditions is
\* true only if the cart lines have at most one distinct size (color, product id)
C13_SameAttribute ==
  (out.fn = "checkConditions" /\ CalledConditions \in AttributeConditions /\ out.value) =>
    /\ Val(CalledConditions.attributes).sameSize
         => \A i, j \in 1..Len(cart.items) : cart.items[i].size = cart.items[j].size
    /\ Val(CalledConditions.attributes).sameColor
         => \A i, j \in 1..Len(cart.items) : cart.items[i].color = cart.items[j].color
    /\ Val(CalledConditions.attributes).sameProduct
         => \A i, j \in 1..Len(cart.items) :
              cart.items[i].productId = cart.items[j].productId

\* the seven types of the PromotionType enum
PromotionTypes ==
  {"PERCENTAGE", "FIXED", "PRICE_FIXED", "FREE_SHIPPING", "FREE_GIFT", "BOGO", "TIERED"}

\* C14: calculatePromoDiscount returns subtotal * discountValue / 100 for
\* PERCENTAGE, min(discountValue, subtotal) for FIXED, max(0, subtotal -
\* discountValue) for PRICE_FIXED, cart.shippingCost or 0 when unset for
\* FREE_SHIPPING, and 0 with empty details for a type outside the enum
C14_DiscountByType ==
  (out.fn = "calculatePromoDiscount" /\ Called \in ValueVariants) =>
    /\ ~out.threw
    /\ Called.type = "PERCENTAGE"
         => out.discount * 100 = cart.subtotal * Val(Called.discountValue)
    /\ Called.type = "FIXED"
         => out.discount = IF Val(Called.discountValue) <= cart.subtotal
                           THEN Val(Called.discountValue) ELSE cart.subtotal
    /\ Called.type = "PRICE_FIXED"
         => out.discount = IF cart.subtotal - Val(Called.discountValue) >= 0
                           THEN cart.subtotal - Val(Called.discountValue) ELSE 0
    /\ Called.type = "FREE_SHIPPING"
         => out.discount = IF cart.shippingCost = Null THEN 0 ELSE Val(cart.shippingCost)
    /\ Called.type \notin PromotionTypes
         => out.discount = 0 /\ out.details = EmptyDetails

\* a FIXED promotion worth more than the cart: the discount is the subtotal
C14_Witness ==
  /\ out.fn = "calculatePromoDiscount"
  /\ Called \in ValueVariants
  /\ Called.type = "FIXED"
  /\ Val(Called.discountValue) > cart.subtotal
  /\ out.discount = cart.subtotal

\* the discountTiers of the promotion the last call was made on
CalledTiers == Val(Called.discountTiers)

\* floor(totalItems / perUnit) of the cart and the called cumulative tiers
CalledGroups == cart.totalItems \div CalledTiers.perUnit

\* the smaller of n and the cap, when there is one
Capped(n, cap) == IF cap # Null /\ Val(cap) < n THEN Val(cap) ELSE n

\* C16: a cumulative TIERED promotion discounts subtotal * min(groups * discount,
\* maxDiscount if present else 100) / 100 when its type is PERCENTAGE and
\* min(groups * discount, maxDiscount if present) otherwise, a maxDiscount of 0
\* being a cap like any other
C16_CumulativeCapped ==
  (out.fn = "calculatePromoDiscount" /\ Called \in CumulativeVariants) =>
    /\ ~out.threw
    /\ out.discount * 100 =
         IF CalledTiers.type = "PERCENTAGE"
         THEN cart.subtotal
                * Capped(CalledGroups * CalledTiers.discount,
                         IF CalledTiers.maxDiscount = Null THEN Some(100)
                         ELSE CalledTiers.maxDiscount)
         ELSE 100 * Capped(CalledGroups * CalledTiers.discount, CalledTiers.maxDiscount)

\* the positions of the called tier list whose threshold the cart meets
MetTiers == {k \in 1..Len(CalledTiers.list) : CalledTiers.list[k].threshold <= cart.totalItems}

\* C17: a progressive TIERED promotion uses, whatever the order of its list, the
\* tier with the highest threshold <= totalItems: subtotal * discount / 100 if
\* its type is PERCENTAGE, its discount otherwise, and 0 when no threshold is met
C17_HighestTierMet ==
  (out.fn = "calculatePromoDiscount" /\ Called \in ProgressiveVariants) =>
    /\ ~out.threw
    /\ MetTiers = {} => out.discount = 0
    /\ MetTiers # {} =>
         \E k \in MetTiers :
           /\ \A j \in MetTiers :
                CalledTiers.list[j].threshold <= CalledTiers.list[k].threshold
           /\ out.details.threshold = CalledTiers.list[k].threshold
           /\ out.discount * 100 =
                IF CalledTiers.list[k].type = "PERCENTAGE"
                THEN cart.subtotal * CalledTiers.list[k].discount
                ELSE 100 * CalledTiers.list[k].discount

\* the tier used is not the first tier met in the stored order
C17_Witness ==
  /\ out.fn = "calculatePromoDiscount"
  /\ Called \in ProgressiveVariants
  /\ Cardinality(MetTiers) >= 2
  /\ \E k \in MetTiers :
       /\ \E j \in MetTiers : j < k
       /\ out.details.threshold = CalledTiers.list[k].threshold
       /\ out.discount > 0

\* the cart lines expanded into quantity-many units each: the unit prices
RECURSIVE UnitPrices(_)
UnitPrices(items) ==
  IF items = <<>> THEN <<>>
  ELSE [k \in 1..Head(items).quantity |-> Head(items).unitPrice] \o UnitPrices(Tail(items))

\* the unit prices sorted ascending when applyOnCheapest, descending otherwise
SortedUnitPrices(items, applyOnCheapest) ==
  Sorted(UnitPrices(items),
         [k \in 1..Len(UnitPrices(items)) |->
            IF applyOnCheapest THEN UnitPrices(items)[k] ELSE 0 - UnitPrices(items)[k]])

\* the bogoConfig of the promotion the last call was made on
CalledConfig == Val(Called.bogoConfig)

\* C18: a BOGO promotion discounts, for each group i of
\* floor(totalItems / (buy + get)), discountOnGet percent of the unit at position
\* i * (buy + get) + buy of the price-sorted units, every cart line counting as
\* quantity-many units
C18_BogoPerUnit ==
  (out.fn = "calculatePromoDiscount" /\ Called \in BogoVariants) =>
    /\ ~out.threw
    /\ out.discount * 100 =
         SumSeq([g \in 1..(cart.totalItems \div (CalledConfig.buy + CalledConfig.get)) |->
                   SortedUnitPrices(cart.items, CalledConfig.applyOnCheapest)
                     [(g - 1) * (CalledConfig.buy + CalledConfig.get) + CalledConfig.buy + 1]
                   * CalledConfig.discountOnGet])

\* the configured amounts of a promotion are not negative and its percentages
\* (discountValue of PERCENTAGE, discountOnGet, the discount of a PERCENTAGE tier,
\* the maxDiscount of cumulative PERCENTAGE tiers) are at most 100
AmountsInRange(promo) ==
  /\ promo.discountValue # Null
       => /\ Val(promo.discountValue) >= 0
          /\ promo.type = "PERCENTAGE" => Val(promo.discountValue) <= 100
  /\ promo.bogoConfig # Null => Val(promo.bogoConfig).discountOnGet \in 0..100
  /\ promo.discountTiers # Null
       => /\ Val(promo.discountTiers).discount >= 0
          /\ Val(promo.discountTiers).maxDiscount # Null
               => /\ Val(Val(promo.discountTiers).maxDiscount) >= 0
                  /\ Val(promo.discountTiers).type = "PERCENTAGE"
                       => Val(Val(promo.discountTiers).maxDiscount) <= 100
          /\ \A k \in 1..Len(Val(promo.discountTiers).list) :
               /\ Val(promo.discountTiers).list[k].discount >= 0
               /\ Val(promo.discountTiers).list[k].type = "PERCENTAGE"
                    => Val(promo.discountTiers).list[k].discount <= 100

\* the last call priced a percentage of the cart or of its unit prices: a
\* PERCENTAGE or BOGO promotion, or a TIERED one that used no FIXED tier
PricedByPercentage ==
  \/ Called.type \in {"PERCENTAGE", "BOGO"}
  \/ /\ Called.type = "TIERED"
     /\ IF CalledTiers.mode = "cumulative" THEN CalledTiers.type = "PERCENTAGE"
        ELSE MetTiers = {} \/ out.details.discountType = "PERCENTAGE"

\* C19 as stated: the discount calculatePromoDiscount returns is never negative
\* and, for PERCENTAGE, TIERED and BOGO promotions, never more than cart.subtotal
C19_DiscountWithinSubtotal ==
  (out.fn = "calculatePromoDiscount" /\ ~out.threw) =>
    /\ out.discount >= 0
    /\ Called.type \in {"PERCENTAGE", "TIERED", "BOGO"} => out.discount <= cart.subtotal

\* C19 amended: with amounts in range the discount calculatePromoDiscount returns
\* is never negative and, for PERCENTAGE and BOGO promotions and for TIERED
\* promotions that use no FIXED tier, never more than cart.subtotal
C19_PercentagesWithinSubtotal ==
  (out.fn = "calculatePromoDiscount" /\ ~out.threw /\ AmountsInRange(Called)) =>
    /\ out.discount >= 0
    /\ PricedByPercentage => out.discount <= cart.subtotal

\* cumulative percentage tiers in range that add up to more than 100 gave the
\* whole subtotal
C19_Witness ==
  /\ out.fn = "calculatePromoDiscount"
  /\ AmountsInRange(Called)
  /\ Called \in CumulativeVariants
  /\ CalledTiers.type = "PERCENTAGE"
  /\ CalledGroups * CalledTiers.discount > 100
  /\ out.discount = cart.subtotal

\* the greatest common divisor of a >= 0 and b > 0, and a fraction in lowest terms
RECURSIVE Gcd(_, _)
Gcd(a, b) == IF b = 0 THEN a ELSE Gcd(b, a % b)

Lowest(f) == [num |-> f.num \div Gcd(f.num, f.den), den |-> f.den \div Gcd(f.num, f.den)]

\* what the claim says of a target and a current value: percentage = current /
\* target * 100, remaining and nextThreshold below the target, 100 and 0 from it on
ProgressTowards(progress, current, target) ==
  IF current < target
  THEN /\ Lowest(progress.percentage) = Lowest([num |-> current * 100, den |-> target])
       /\ progress.remaining = target - current
       /\ progress.nextThreshold = Some(target)
  ELSE /\ Lowest(progress.percentage) = [num |-> 100, den |-> 1]
       /\ progress.remaining = 0

\* C20: for a promotion whose only condition is minQuantity (measured against
\* totalItems) or minCartValue (against subtotal), calculateProgress returns the
\* progress towards that target, whether checkConditions holds or not
C20_ProgressTowardsTarget ==
  (out.fn = "calculateProgress" /\ Called \in ConditionVariants) =>
    /\ (/\ CalledConditions.minQuantity # Null
         /\ CalledConditions = [NoConditions EXCEPT !.minQuantity = CalledConditions.minQuantity])
         => /\ ~out.threw
            /\ ProgressTowards(out.progress, cart.totalItems,
                                Val(CalledConditions.minQuantity))
    /\ (/\ CalledConditions.minCartValue # Null
         /\ CalledConditions = [NoConditions EXCEPT !.minCartValue = CalledConditions.minCartValue])
         => /\ ~out.threw
            /\ ProgressTowards(out.progress, cart.subtotal,
                                Val(CalledConditions.minCartValue))

\* the thresholds of the called tier list above the cart's totalItems, and those
\* it has reached
ThresholdsAbove ==
  {CalledTiers.list[k].threshold : k \in 1..Len(CalledTiers.list)} \ (0..cart.totalItems)

ThresholdsReached ==
  {CalledTiers.list[k].threshold : k \in 1..Len(CalledTiers.list)} \cap (0..cart.totalItems)

Lowest_of(S) == CHOOSE x \in S : \A y \in S : x <= y

Highest_of(S) == CHOOSE x \in S : \A y \in S : y <= x

\* the highest threshold reached, 0 if none
Baseline == IF ThresholdsReached = {} THEN 0 ELSE Highest_of(ThresholdsReached)

\* C21: for a TIERED promotion with a tier list, calculateProgress measures from
\* the highest threshold reached (0 if none) to the smallest threshold above
\* totalItems, and returns percentage 100 when no threshold is above
C21_ProgressBetweenTiers ==
  (out.fn = "calculateProgress" /\ Called \in ProgressiveVariants) =>
    /\ ~out.threw
    /\ ThresholdsAbove = {} => Lowest(out.progress.percentage) = [num |-> 100, den |-> 1]
    /\ ThresholdsAbove # {} =>
         /\ Lowest(out.progress.percentage) =
              Lowest([num |-> (cart.totalItems - Baseline) * 100,
                      den |-> Lowest_of(ThresholdsAbove) - Baseline])
         /\ out.progress.remaining = Lowest_of(ThresholdsAbove) - cart.totalItems
         /\ out.progress.nextThreshold = Some(Lowest_of(ThresholdsAbove))

\* the called promotion with the progress dimensions removed that come before
\* its last one (order: minQuantity, minCartValue, the tier list)
LastDimensionOnly ==
  IF Called.type = "TIERED" /\ Called.discountTiers # Null
  THEN [Called EXCEPT !.conditions = Some(NoConditions)]
  ELSE IF CalledConditions.minCartValue # Null
       THEN [Called EXCEPT !.conditions =
               Some([CalledConditions EXCEPT !.minQuantity = Null])]
       ELSE Called

\* C22: with several progress dimensions, every field calculateProgress returns
\* is the field it returns for the same promotion with only the last dimension
C22_LastDimensionOnly ==
  (out.fn = "calculateProgress" /\ Called \in DimensionVariants) =>
    /\ ~out.threw
    /\ out.progress = calculateProgress(cart, LastDimensionOnly).progress

\* the thresholds of the promotion that are set are positive
PositiveThresholds(promo) ==
  /\ promo.conditions # Null
  /\ \A t \in Val(promo.conditions).minQuantity \cup Val(promo.conditions).minCartValue : t > 0
  /\ (promo.type = "TIERED" /\ promo.discountTiers # Null
        /\ Val(promo.discountTiers).mode # "cumulative")
       => \A k \in 1..Len(Val(promo.discountTiers).list) :
            Val(promo.discountTiers).list[k].threshold > 0

\* C29: for a cart with non-negative totalItems and subtotal and a promotion
\* with positive thresholds, the percentage calculateProgress returns is
\* within 0..100 and remaining is not negative
C29_ProgressWithinRange ==
  (/\ out.fn = "calculateProgress" /\ ~out.threw
   /\ cart.totalItems >= 0 /\ cart.subtotal >= 0
   /\ PositiveThresholds(Called)) =>
    /\ out.progress.percentage.den > 0
    /\ out.progress.percentage.num >= 0
    /\ out.progress.percentage.num <= 100 * out.progress.percentage.den
    /\ out.progress.remaining >= 0

\* the cart holds more items than the minQuantity of the promotion, its only
\* threshold, and the progress returned is 100 % with nothing remaining
C29_Witness ==
  /\ out.fn = "calculateProgress" /\ ~out.threw
  /\ PositiveThresholds(Called)
  /\ Called.type # "TIERED"
  /\ Val(Called.conditions).minQuantity # Null
  /\ Val(Called.conditions).minCartValue = Null
  /\ cart.totalItems > Val(Val(Called.conditions).minQuantity)
  /\ out.progress.percentage = Frac(100, 1)
  /\ out.progress.remaining = 0

====
